---- MODULE Spec2Model ----
(***************************************************************************)
(* A model of the voxel_engine plugin API: the WASI shim of src/wasi.rs    *)
(* (the console-write line buffer, the stubbed and the trapping calls),    *)
(* the direction algebra of voxel_engine_types/src/math/direction.rs, the  *)
(* fixed-point world coordinates of voxel_engine_types/src/math/mod.rs,    *)
(* the asset encoder of voxel_engine_macros, the asset accessors of        *)
(* voxel_engine_types/src/asset.rs and the example client's frame handler. *)
(* fd_write is modelled twice: as one step a call, and one loop test at a   *)
(* time.                                                                    *)
(***************************************************************************)
EXTENDS Integers, Sequences, FiniteSets, TLC

VARIABLES
    BUFFER,     \* fd_write's `static mut BUFFER: String`: the unterminated line
    log,        \* the calls made to global_log, in order: [level, message]
    nwritten,   \* the usize cell fd_write's `nwritten` points to
    envSizes,   \* the two usize cells environ_sizes_get's offset0/offset1 point to
    envBufs,    \* the two buffers environ_get's arguments point to
    randBuf,    \* the bytes of the region random_get's `buf` points into
    result,     \* how the last shim call ended, and its return value
    stream,     \* every byte handed to fd_write on fd 1 or 2 so far, in order
    dir,        \* a Direction value (its raw u8)
    flags,      \* a DirectionFlags value (its u8)
    mathOp,     \* the last operation applied to dir / flags / oct / axis
    oct,        \* an Octant value (its raw u8)
    axis,       \* an Axis value (its raw u8)
    ia,         \* an IVec3: the first argument of a world-coordinate call
    ib,         \* an IVec3: the second argument of a world-coordinate call
    coordOut,   \* the last world-coordinate call and how it ended
    embedded,   \* the files handed to the asset encoder, with its results
    hostAssets, \* what the host's try_get_raw answers for each asset id
    tomlOut,    \* how the last get_from_toml call ended
    frame,      \* the number of Frame events the example client has handled
    issued,     \* the texture indices get_ui_texture returned: [frame, index]
    handed,     \* the texture indices handed to the UI: [frame, index]
    client,     \* whether the example client still runs or has panicked
    actions,    \* the host's input actions: [kind, name, system, bindings]
    defineLog,  \* the define calls made so far, each with the id returned
    held,       \* the host's digital state of an action this tick
    heldLast,   \* the same, last tick
    ticks,      \* the digital state of the action in each tick so far
    digitalOut, \* what the last get_digital call returned
    writing,    \* the fd_write call in progress: its arguments, its locals and
                \* the place it has reached
    conv        \* a conversion from raw bytes: its u8 arguments, the function
                \* applied to them and how it ended

wasiVars == <<BUFFER, log, nwritten, envSizes, envBufs, randBuf, result, stream>>
mathVars == <<dir, flags, mathOp, oct, axis>>
coordVars == <<ia, ib, coordOut>>
assetVars == <<embedded, hostAssets, tomlOut>>
uiVars == <<frame, issued, handed, client>>
inputVars == <<actions, defineLog, held, heldLast, ticks, digitalOut>>
vars == <<BUFFER, log, nwritten, envSizes, envBufs, randBuf, result, stream,
          dir, flags, mathOp, oct, axis, ia, ib, coordOut,
          embedded, hostAssets, tomlOut, frame, issued, handed, client,
          actions, defineLog, held, heldLast, ticks, digitalOut, writing,
          conv>>

\* What a step of one part of the API leaves alone.
exceptWasi ==
    <<mathVars, coordVars, assetVars, uiVars, inputVars, writing, conv>>
exceptMath ==
    <<wasiVars, coordVars, assetVars, uiVars, inputVars, writing, conv>>
exceptCoord ==
    <<wasiVars, mathVars, assetVars, uiVars, inputVars, writing, conv>>
exceptAsset ==
    <<wasiVars, mathVars, coordVars, uiVars, inputVars, writing, conv>>
exceptUi ==
    <<wasiVars, mathVars, coordVars, assetVars, inputVars, writing, conv>>
exceptInput ==
    <<wasiVars, mathVars, coordVars, assetVars, uiVars, writing, conv>>
\* What a step inside fd_write leaves alone.
exceptFdWrite == <<envSizes, envBufs, randBuf, mathVars, coordVars, assetVars,
                   uiVars, inputVars, conv>>
\* What a conversion from raw bytes leaves alone.
exceptConv == <<wasiVars, mathVars, coordVars, assetVars, uiVars, inputVars,
                writing>>

----------------------------------------------------------------------------
(* Bounds of the model. *)

\* The total number of bytes handed to fd_write over a run of Spec.
MaxStream == 2
\* The same over a run of SpecSingle and of SpecTagged (one ciovec a call).
MaxSingle == 5
\* The number of files in an embedded directory.
MaxFiles == 3
\* The number of Frame events in a run of SpecUi.
MaxFrames == 4
\* The number of define calls in a run of SpecDefine.
MaxDefines == 3
\* The number of ticks in a run of SpecDigital.
MaxTicks == 5
\* The total number of bytes handed to fd_write over a run of SpecSteps.
MaxStepBytes == 3
\* The number of ciovecs in one fd_write call.
MaxIov == 2
\* The size of the region random_get writes into.
RandSize == 2

----------------------------------------------------------------------------
(* Bytes, strings, log levels. *)

NL == "\n"
\* The bytes a write may hold: two ordinary characters and the newline.
Chars == {"a", "b", NL}

\* What a memory cell holds before the shim writes it (any prior content).
Junk == 170

Info == "Info"
Error == "Error"
LogLevel == {"Trace", "Debug", Info, "Warn", Error}

SeqsUpTo(S, n) == UNION {[1..k -> S] : k \in 0..n}

\* str::find('\n'): the index of the first newline, 0 for None.
RECURSIVE FindFrom(_, _)
FindFrom(s, i) ==
    IF i > Len(s) THEN 0
    ELSE IF s[i] = NL THEN i
    ELSE FindFrom(s, i + 1)

\* find looking past the first byte.
FindSkipsFirst(s) == FindFrom(s, 2)

Find(s) == FindFrom(s, 1)

----------------------------------------------------------------------------
(* fd_write (src/wasi.rs 82-121).  A call's ciovec list is a sequence of    *)
(* byte strings; ciov_buf is an index into it and ciov_buf_len a count.     *)
(* The loops run over a record st = [current_string, lg, nwritten]: the    *)
(* line buffer, the messages logged, and *nwritten.                         *)

\* Lines 87-90: skip the leading empty ciovecs.
RECURSIVE SkipEmpty(_, _, _)
SkipEmpty(iovs, ciov_buf, ciov_buf_len) ==
    IF ciov_buf_len /= 0 /\ Len(iovs[ciov_buf]) = 0
    THEN SkipEmpty(iovs, ciov_buf + 1, ciov_buf_len - 1)
    ELSE [ciov_buf |-> ciov_buf, ciov_buf_len |-> ciov_buf_len]

\* Line 94.
LevelOf(fd) == IF fd = 1 THEN Info ELSE Error

\* LogLine without the clear() of line 107.
LogLineKeepsBuffer(st, log_level, sequence) ==
    IF st.current_string = <<>>
    THEN [st EXCEPT !.lg = Append(@, [level |-> log_level, message |-> sequence])]
    ELSE [st EXCEPT !.current_string = st.current_string \o sequence,
                    !.lg = Append(@, [level |-> log_level,
                                      message |-> st.current_string \o sequence])]

\* Lines 101-108: log one terminated line, through the buffer when it holds
\* the line's beginning.
LogLine(st, log_level, sequence) ==
    IF st.current_string = <<>>
    THEN [st EXCEPT !.lg = Append(@, [level |-> log_level, message |-> sequence])]
    ELSE [st EXCEPT !.current_string = <<>>,
                    !.lg = Append(@, [level |-> log_level,
                                      message |-> st.current_string \o sequence])]

\* KeepRest with line 112 assigning instead of appending.
KeepRestDropsOld(st, to_write) ==
    [st EXCEPT !.nwritten = @ + Len(to_write), !.current_string = to_write]

\* Lines 111-112: count and buffer what follows the last newline.
KeepRest(st, to_write) ==
    [st EXCEPT !.nwritten = @ + Len(to_write), !.current_string = @ \o to_write]

\* Lines 97-112: one pass of the outer loop over the string to_write.
RECURSIVE WriteString(_, _, _)
WriteString(to_write, st, log_level) ==
    LET last == Find(to_write) IN
    IF last /= 0
    THEN LET sequence == SubSeq(to_write, 1, last - 1)
             rest == SubSeq(to_write, last + 1, Len(to_write))
             logged == LogLine(st, log_level, sequence)
         IN  WriteString(rest,
                         [logged EXCEPT !.nwritten = @ + Len(sequence) + 1],
                         log_level)
    ELSE KeepRest(st, to_write)

\* Lines 96-114: the outer loop.  It counts ciov_buf_len down and reads
\* *ciov_buf on every pass; ciov_buf itself is not advanced.
RECURSIVE WriteLoop(_, _, _, _, _)
WriteLoop(iovs, ciov_buf, ciov_buf_len, st, log_level) ==
    IF ciov_buf_len > 0
    THEN WriteLoop(iovs, ciov_buf, ciov_buf_len - 1,
                   WriteString(iovs[ciov_buf], st, log_level), log_level)
    ELSE st

\* Lines 85-116: the effect of a call on fd 1 or 2 from the line buffer
\* current_string and the log lg: the record st on return.
FdWriteEffect(fd, iovs, current_string, lg) ==
    LET at == SkipEmpty(iovs, 1, Len(iovs))
    IN  WriteLoop(iovs, at.ciov_buf, at.ciov_buf_len,
                  [current_string |-> current_string, lg |-> lg,
                   nwritten |-> 0],
                  LevelOf(fd))

\* The concatenation of a call's ciovecs.
RECURSIVE Flatten(_)
Flatten(iovs) ==
    IF iovs = <<>> THEN <<>> ELSE Head(iovs) \o Flatten(Tail(iovs))

\* How a call ends: it returns an i32, or it panics and the call is aborted
\* (no value reaches the caller; the value field is then unused).
Returned(v) == [status |-> "returned", value |-> v]
Trapped == [status |-> "trapped", value |-> 0]

\* fd_write taking every descriptor for a console.
fd_write_any(fd, iovs) ==
    LET st == FdWriteEffect(fd, iovs, BUFFER, log) IN
    /\ BUFFER' = st.current_string
    /\ log' = st.lg
    /\ nwritten' = st.nwritten
    /\ result' = Returned(0)
    /\ stream' = stream \o Flatten(iovs)
    /\ UNCHANGED <<envSizes, envBufs, randBuf>>

\* fd_write(fd, ciov_buf, ciov_buf_len, nwritten).
fd_write(fd, iovs) ==
    IF fd = 1 \/ fd = 2
    THEN LET st == FdWriteEffect(fd, iovs, BUFFER, log) IN
         /\ BUFFER' = st.current_string
         /\ log' = st.lg
         /\ nwritten' = st.nwritten
         /\ result' = Returned(0)
         /\ stream' = stream \o Flatten(iovs)
         /\ UNCHANGED <<envSizes, envBufs, randBuf>>
    ELSE \* line 119: unreachable!()
         /\ result' = Trapped
         /\ UNCHANGED <<BUFFER, log, nwritten, stream, envSizes, envBufs, randBuf>>

----------------------------------------------------------------------------
(* The other shim functions. *)

\* environ_get (lines 43-46): returns 0, writes nothing.
environ_get ==
    /\ result' = Returned(0)
    /\ UNCHANGED <<BUFFER, log, nwritten, stream, envSizes, envBufs, randBuf>>

\* StoreSizes without line 61.
StoreSizesFirstOnly == [envSizes EXCEPT !.offset0 = 0]

\* Lines 60-61: *offset0 = 0; *offset1 = 0.
StoreSizes == [envSizes EXCEPT !.offset0 = 0, !.offset1 = 0]

\* environ_sizes_get (lines 58-63).
environ_sizes_get ==
    /\ result' = Returned(0)
    /\ UNCHANGED <<BUFFER, log, nwritten, stream, envBufs, randBuf>>
    /\ envSizes' = StoreSizes

\* proc_exit (lines 133-136): unreachable!().
proc_exit ==
    /\ result' = Trapped
    /\ UNCHANGED <<BUFFER, log, nwritten, stream, envSizes, envBufs, randBuf>>

\* sched_yield were it to drop the buffered line.
sched_yield_flushes ==
    /\ result' = Returned(0)
    /\ BUFFER' = <<>>
    /\ UNCHANGED <<log, nwritten, stream, envSizes, envBufs, randBuf>>

\* sched_yield (lines 143-146): 0.
sched_yield ==
    /\ result' = Returned(0)
    /\ UNCHANGED <<BUFFER, log, nwritten, stream, envSizes, envBufs, randBuf>>

\* Fill running one byte past the slice.
FillOneMore(mem, buf, buf_len) ==
    [i \in DOMAIN mem |-> IF buf <= i /\ i <= buf + buf_len THEN 0 ELSE mem[i]]

\* Line 157: from_raw_parts_mut(buf, buf_len).fill(0) on the region's bytes
\* buf .. buf + buf_len - 1.
Fill(mem, buf, buf_len) ==
    [i \in DOMAIN mem |-> IF buf <= i /\ i < buf + buf_len THEN 0 ELSE mem[i]]

\* random_get (lines 154-159).
random_get(buf, buf_len) ==
    /\ result' = Returned(0)
    /\ UNCHANGED <<BUFFER, log, nwritten, stream, envSizes, envBufs>>
    /\ randBuf' = Fill(randBuf, buf, buf_len)

\* The functions impl_trap_for_funcs! defines (lines 161-778).
TrapFuncs ==
    {"args_get", "args_sizes_get", "clock_res_get", "clock_time_get",
     "fd_advise", "fd_allocate", "fd_close", "fd_datasync", "fd_fdstat_get",
     "fd_fdstat_set_flags", "fd_fdstat_set_rights", "fd_filestat_get",
     "fd_filestat_set_size", "fd_filestat_set_times", "fd_pread",
     "fd_prestat_get", "fd_prestat_dir_name", "fd_pwrite", "fd_read",
     "fd_readdir", "fd_renumber", "fd_seek", "fd_sync", "fd_tell",
     "path_create_directory", "path_filestat_get", "path_filestat_set_times",
     "path_link", "path_open", "path_readlink", "path_remove_directory",
     "path_rename", "path_symlink", "path_unlink_file", "poll_oneoff",
     "proc_raise", "sock_accept", "sock_recv", "sock_send", "sock_shutdown"}

\* TrapBody were fd_close a stub returning success.
TrapBodyReturns(f) == IF f = "fd_close" THEN Returned(0) ELSE Trapped

\* The body impl_trap_for_funcs! gives each function (line 17):
\* unimplemented!(), whatever the arguments.
TrapBody(f) == Trapped

trap_func(f) ==
    /\ result' = TrapBody(f)
    /\ UNCHANGED <<BUFFER, log, nwritten, stream, envSizes, envBufs, randBuf>>

----------------------------------------------------------------------------
(* The calls a plugin makes. *)

\* The ways to cut `data` into k ciovecs (empty ones included).
RECURSIVE Splits(_, _)
Splits(data, k) ==
    IF k = 0
    THEN IF data = <<>> THEN {<<>>} ELSE {}
    ELSE UNION {{<<SubSeq(data, 1, i)>> \o rest :
                    rest \in Splits(SubSeq(data, i + 1, Len(data)), k - 1)} :
                i \in 0..Len(data)}

\* The ciovec lists of at most `maxIov` ciovecs holding at most `budget` bytes.
IovLists(budget, maxIov) ==
    UNION {UNION {Splits(data, k) : k \in 0..maxIov} :
           data \in SeqsUpTo(Chars, budget)}

\* Standard output and standard error, and their two neighbours.
Fds == {0, 1, 2, 3}

Budget == MaxStream - Len(stream)

\* A panic (unimplemented!(), unreachable!()) aborts the plugin: the shim is
\* not called again afterwards.
Running == result.status /= "trapped"

FdWrite ==
    /\ Running
    /\ \E fd \in {1, 2} : \E iovs \in IovLists(Budget, MaxIov) :
          fd_write(fd, iovs)
    /\ UNCHANGED exceptWasi

\* A call on another descriptor; the data it carries is never looked at.
FdWriteOther ==
    /\ Running
    /\ \E fd \in Fds \ {1, 2} : \E iovs \in {<<>>, <<<<"a", NL>>>>} :
          fd_write(fd, iovs)
    /\ UNCHANGED exceptWasi

EnvironGet == Running /\ environ_get /\ UNCHANGED exceptWasi

EnvironSizesGet == Running /\ environ_sizes_get /\ UNCHANGED exceptWasi

ProcExit == Running /\ proc_exit /\ UNCHANGED exceptWasi

SchedYield == Running /\ sched_yield /\ UNCHANGED exceptWasi

RandomGet ==
    /\ Running
    /\ \E buf \in 0..RandSize : \E buf_len \in 0..(RandSize - buf) :
          random_get(buf, buf_len)
    /\ UNCHANGED exceptWasi

TrapFunc ==
    /\ Running
    /\ \E f \in TrapFuncs : trap_func(f)
    /\ UNCHANGED exceptWasi

NoCall == [status |-> "none", value |-> 0]

WasiInit ==
    /\ BUFFER = <<>>
    /\ log = <<>>
    /\ nwritten = Junk
    /\ envSizes = [offset0 |-> Junk, offset1 |-> Junk]
    /\ envBufs = [environ |-> Junk, environ_buf |-> Junk]
    /\ randBuf = [i \in 0..(RandSize - 1) |-> Junk]
    /\ result = NoCall
    /\ stream = <<>>

MathIdle == dir = 0 /\ flags = 0 /\ mathOp = "none" /\ oct = 0 /\ axis = 0

\* No world-coordinate call made yet.
CoordIdle ==
    /\ ia = <<0, 0, 0>>
    /\ ib = <<0, 0, 0>>
    /\ coordOut = [fn |-> "none", of |-> "none", status |-> "none",
                   value |-> <<>>]

\* Nothing embedded, no asset known to the host, no accessor called.
AssetIdle ==
    /\ embedded = <<>>
    /\ hostAssets = <<>>
    /\ tomlOut = NoCall

\* The example client as HelloClient::new leaves it (example_mod lines
\* 48-55): no Frame event handled yet.
UiIdle ==
    /\ frame = 0
    /\ issued = {}
    /\ handed = <<>>
    /\ client = "running"

\* DigitalResult::default() (input.rs lines 185-195): the derived Default
\* of three bools.
DigitalResultDefault == [held |-> FALSE, released |-> FALSE, pressed |-> FALSE]

\* No action defined, no tick passed, no input seen.
InputIdle ==
    /\ actions = <<>>
    /\ defineLog = <<>>
    /\ held = FALSE
    /\ heldLast = FALSE
    /\ ticks = <<>>
    /\ digitalOut = DigitalResultDefault

\* No fd_write call is in progress.
NotCalling ==
    [pc |-> "idle", fd |-> 0, iovs |-> <<>>, ciov_buf |-> 0,
     ciov_buf_len |-> 0, to_write |-> <<>>]

\* No conversion applied yet, to the bytes 0 and 0.
ConvIdle == [args |-> <<0, 0>>, fn |-> "none", status |-> "none", value |-> 0]

\* Neither fd_write entered nor a conversion applied.
CallsIdle == writing = NotCalling /\ conv = ConvIdle

\* The parts of the API no call has touched yet, but for the conversions.
RestIdle == CoordIdle /\ AssetIdle /\ UiIdle /\ InputIdle /\ writing = NotCalling

\* The parts of the API no call has touched yet.
LibIdle == RestIdle /\ conv = ConvIdle

Init == WasiInit /\ MathIdle /\ LibIdle

Next ==
    \/ FdWrite
    \/ FdWriteOther
    \/ EnvironGet
    \/ EnvironSizesGet
    \/ ProcExit
    \/ SchedYield
    \/ RandomGet
    \/ TrapFunc

Spec == Init /\ [][Next]_vars

\* Runs of fd_write calls alone, on any descriptor and with any ciovec list.
NextFdWrite ==
    \/ FdWrite
    \/ FdWriteOther

SpecFdWrite == Init /\ [][NextFdWrite]_vars

\* Runs in which every fd_write call is on fd 1 or 2 and supplies its data
\* in a single ciovec.
FdWriteSingle ==
    /\ \E fd \in {1, 2} :
          \E data \in SeqsUpTo(Chars, MaxSingle - Len(stream)) :
              fd_write(fd, <<data>>)
    /\ UNCHANGED exceptWasi

NextSingle == FdWriteSingle

SpecSingle == Init /\ [][NextSingle]_vars

\* Runs of single-ciovec calls in which the two streams are told apart by
\* their bytes: standard output writes only "a" and newlines, standard error
\* only "b" and newlines.
CharsOf(fd) == IF fd = 1 THEN {"a", NL} ELSE {"b", NL}

FdWriteTagged ==
    /\ \E fd \in {1, 2} :
          \E data \in SeqsUpTo(CharsOf(fd), MaxSingle - Len(stream)) :
              fd_write(fd, <<data>>)
    /\ UNCHANGED exceptWasi

NextTagged == FdWriteTagged

SpecTagged == Init /\ [][NextTagged]_vars

----------------------------------------------------------------------------
(* fd_write one loop pass at a time (src/wasi.rs 85-116).  The arguments    *)
(* fd and iovs and the locals ciov_buf, ciov_buf_len and to_write are the   *)
(* fields of `writing`; its pc names the loop the call stands before.       *)

\* The line buffer, the log and *nwritten as the record the loop bodies
\* work on, and that record stored back.
StNow == [current_string |-> BUFFER, lg |-> log, nwritten |-> nwritten]

Store(st) ==
    /\ BUFFER' = st.current_string
    /\ log' = st.lg
    /\ nwritten' = st.nwritten

\* The ciovec lists of a run of SpecSteps: one ordinary character and the
\* newline, at most MaxIov ciovecs, empty ones included.
StepIovLists ==
    UNION {UNION {Splits(data, k) : k \in 0..MaxIov} :
           data \in SeqsUpTo({"a", NL}, MaxStepBytes - Len(stream))}

\* The caller enters fd_write with fd 1 or 2 (lines 82-85).
EnterFdWrite ==
    /\ writing.pc = "idle"
    /\ \E fd \in {1, 2} :
          \E iovs \in StepIovLists :
              /\ writing' = [pc |-> "skip", fd |-> fd, iovs |-> iovs,
                             ciov_buf |-> 1, ciov_buf_len |-> Len(iovs),
                             to_write |-> <<>>]
              /\ stream' = stream \o Flatten(iovs)
    /\ UNCHANGED <<BUFFER, log, nwritten, result, exceptFdWrite>>

\* The body of the first loop leaving both locals as they are.
SkipOneStays(w) == w

\* Lines 88-89: ciov_buf = ciov_buf.add(1); ciov_buf_len -= 1.
SkipOne(w) == [w EXCEPT !.ciov_buf = @ + 1, !.ciov_buf_len = @ - 1]

\* Lines 87-92: one test of the first loop; when it fails, *nwritten = 0.
SkipStep ==
    /\ writing.pc = "skip"
    /\ IF /\ writing.ciov_buf_len /= 0
          /\ Len(writing.iovs[writing.ciov_buf]) = 0
       THEN /\ writing' = SkipOne(writing)
            /\ UNCHANGED nwritten
       ELSE /\ writing' = [writing EXCEPT !.pc = "outer"]
            /\ nwritten' = 0
    /\ UNCHANGED <<BUFFER, log, result, stream, exceptFdWrite>>

\* Lines 96-97 and 116: one test of the outer loop; when it fails the call
\* returns 0.
OuterStep ==
    /\ writing.pc = "outer"
    /\ IF writing.ciov_buf_len > 0
       THEN /\ writing' = [writing EXCEPT
                              !.pc = "inner",
                              !.to_write = writing.iovs[writing.ciov_buf]]
            /\ UNCHANGED result
       ELSE /\ writing' = [writing EXCEPT !.pc = "idle"]
            /\ result' = Returned(0)
    /\ UNCHANGED <<BUFFER, log, nwritten, stream, exceptFdWrite>>

\* Lines 98-113: one test of the inner loop; when it fails the rest is
\* buffered and ciov_buf_len counted down.
InnerStep ==
    /\ writing.pc = "inner"
    /\ LET last == Find(writing.to_write) IN
       IF last /= 0
       THEN LET sequence == SubSeq(writing.to_write, 1, last - 1)
                logged == LogLine(StNow, LevelOf(writing.fd), sequence)
            IN  /\ writing' = [writing EXCEPT
                                  !.to_write = SubSeq(@, last + 1, Len(@))]
                /\ Store([logged EXCEPT !.nwritten = @ + Len(sequence) + 1])
       ELSE /\ Store(KeepRest(StNow, writing.to_write))
            /\ writing' = [writing EXCEPT !.pc = "outer",
                                          !.ciov_buf_len = @ - 1,
                                          !.to_write = <<>>]
    /\ UNCHANGED <<result, stream, exceptFdWrite>>

\* The steps of a call in progress.
StepFdWrite == SkipStep \/ OuterStep \/ InnerStep

NextSteps ==
    \/ EnterFdWrite
    \/ SkipStep
    \/ OuterStep
    \/ InnerStep

\* fd_write is a synchronous function: once entered, the thread keeps
\* executing it.
SpecSteps == Init /\ [][NextSteps]_vars /\ WF_vars(StepFdWrite)

----------------------------------------------------------------------------
(* Direction and DirectionFlags (voxel_engine_types/src/math/direction.rs). *)
(* Values are their raw u8.                                                 *)

RECURSIVE BitXor(_, _)
BitXor(a, b) ==
    IF a = 0 /\ b = 0 THEN 0
    ELSE (((a % 2) + (b % 2)) % 2) + 2 * BitXor(a \div 2, b \div 2)

RECURSIVE BitOrU8(_, _)
BitOrU8(a, b) ==
    IF a = 0 /\ b = 0 THEN 0
    ELSE (IF a % 2 = 1 \/ b % 2 = 1 THEN 1 ELSE 0)
         + 2 * BitOrU8(a \div 2, b \div 2)

RECURSIVE BitAndU8(_, _)
BitAndU8(a, b) ==
    IF a = 0 \/ b = 0 THEN 0
    ELSE (IF a % 2 = 1 /\ b % 2 = 1 THEN 1 ELSE 0)
         + 2 * BitAndU8(a \div 2, b \div 2)

\* !x and x << n on a u8.
BitNotU8(a) == 255 - a
Shl(a, n) == (a * 2^n) % 256

\* enum Direction (lines 304-319).
LEFT == 0
RIGHT == 1
DOWN == 2
UP == 3
BACK == 4
FRONT == 5
Directions == {LEFT, RIGHT, DOWN, UP, BACK, FRONT}

\* Direction::from_raw (lines 327-329): transmute keeps the byte.
DirectionFromRaw(bits) == bits

\* Reverse stepping to the next direction instead of flipping the low bit.
ReverseAddsOne(d) == DirectionFromRaw((d + 1) % 6)

\* Direction::reverse (lines 345-349): from_raw((self as u8) ^ 1).
Reverse(d) == DirectionFromRaw(BitXor(d, 1))

\* offset with DOWN pointing up.
OffsetDownIsUp(d) ==
    CASE d = LEFT -> <<-1, 0, 0>>
      [] d = RIGHT -> <<1, 0, 0>>
      [] d = DOWN -> <<0, 1, 0>>
      [] d = UP -> <<0, 1, 0>>
      [] d = BACK -> <<0, 0, -1>>
      [] d = FRONT -> <<0, 0, 1>>

\* Direction::offset (lines 333-342).
Offset(d) ==
    CASE d = LEFT -> <<-1, 0, 0>>
      [] d = RIGHT -> <<1, 0, 0>>
      [] d = DOWN -> <<0, -1, 0>>
      [] d = UP -> <<0, 1, 0>>
      [] d = BACK -> <<0, 0, -1>>
      [] d = FRONT -> <<0, 0, 1>>

\* Direction::positive (lines 352-354): self as u8 % 2 == 1.
Positive(d) == d % 2 = 1

\* u8 >> n.
Shr(a, n) == a \div (2^n)

\* enum Octant (lines 5-25): raw values 0x00..0x07.
Octants == 0..7

\* Octant::from_raw (lines 34-36): transmute keeps the byte.
OctantFromRaw(bits) == bits

\* enum Axis (lines 376-385).
X == 0
Y == 1
Z == 2
Axes == {X, Y, Z}

\* as_uvec3 with the y and z components exchanged.
AsUVec3Swapped(o) ==
    <<BitAndU8(o, 1), Shr(o, 2), BitAndU8(Shr(o, 1), 1)>>

\* Octant::as_uvec3 (lines 47-49):
\* uvec3(self & 0b1, (self >> 1) & 0b1, self >> 2).
AsUVec3(o) ==
    <<BitAndU8(o, 1), BitAndU8(Shr(o, 1), 1), Shr(o, 2)>>

\* Flip setting the axis bit instead of toggling it.
FlipSetsBit(o, a) == OctantFromRaw(BitOrU8(o, Shl(1, a)))

\* Octant::flip (lines 52-56): from_raw((self as u8) ^ (1 << (axis as u8))).
Flip(o, a) == OctantFromRaw(BitXor(o, Shl(1, a)))

\* from_direction taking the raw value modulo the number of axes.
AxisFromDirectionMod(value) == value % 3

\* Axis::from_direction (lines 404-408): transmute((value as u8) >> 1).
AxisFromDirection(value) == Shr(value, 1)

\* Axis::as_direction_negative (lines 411-415) and as_direction_positive
\* (lines 418-422).
AsDirectionNegative(a) == DirectionFromRaw(Shl(a, 1))
AsDirectionPositive(a) == DirectionFromRaw(BitOrU8(Shl(a, 1), 1))

\* DirectionFlags::ALL (line 204) and from_bits_truncate (lines 234-236).
FlagsALL ==
    BitOrU8(Shl(1, LEFT), BitOrU8(Shl(1, RIGHT), BitOrU8(Shl(1, DOWN),
        BitOrU8(Shl(1, UP), BitOrU8(Shl(1, BACK), Shl(1, FRONT))))))

FromBitsTruncate(bits) == BitAndU8(bits, FlagsALL)

\* From<Direction> for DirectionFlags (lines 363-367).
FlagsFromDirection(d) == Shl(1, d)

\* DirectionFlags::NONE and the six single-direction constants (lines
\* 190-202).
FlagsNONE == 0
FlagsLEFT == Shl(1, LEFT)
FlagsRIGHT == Shl(1, RIGHT)
FlagsDOWN == Shl(1, DOWN)
FlagsUP == Shl(1, UP)
FlagsBACK == Shl(1, BACK)
FlagsFRONT == Shl(1, FRONT)
FlagsConstants ==
    {FlagsNONE, FlagsLEFT, FlagsRIGHT, FlagsDOWN, FlagsUP, FlagsBACK,
     FlagsFRONT, FlagsALL}

\* from_octant pointing every way.
FromOctantAll(a) == FlagsALL

\* DirectionFlags::from_octant (lines 207-220).
FromOctant(a) ==
    CASE a = 0 -> BitOrU8(FlagsLEFT, BitOrU8(FlagsDOWN, FlagsBACK))
      [] a = 1 -> BitOrU8(FlagsRIGHT, BitOrU8(FlagsDOWN, FlagsBACK))
      [] a = 2 -> BitOrU8(FlagsLEFT, BitOrU8(FlagsUP, FlagsBACK))
      [] a = 3 -> BitOrU8(FlagsRIGHT, BitOrU8(FlagsUP, FlagsBACK))
      [] a = 4 -> BitOrU8(FlagsLEFT, BitOrU8(FlagsDOWN, FlagsFRONT))
      [] a = 5 -> BitOrU8(FlagsRIGHT, BitOrU8(FlagsDOWN, FlagsFRONT))
      [] a = 6 -> BitOrU8(FlagsLEFT, BitOrU8(FlagsUP, FlagsFRONT))
      [] a = 7 -> BitOrU8(FlagsRIGHT, BitOrU8(FlagsUP, FlagsFRONT))

\* DirectionFlags::from_negative_positive_masks (lines 241-248).
FromNegativePositiveMasks(negatives, positives) ==
    LET x == BitOrU8(negatives, Shl(positives, 3))
    IN  FromBitsTruncate(
            BitOrU8(BitAndU8(x, 33),
            BitOrU8(Shl(BitAndU8(x, 2), 1),
            BitOrU8(Shl(BitAndU8(x, 4), 2),
            BitOrU8(Shr(BitAndU8(x, 8), 2),
                    Shr(BitAndU8(x, 16), 1))))))

\* DirectionFlags::contains (lines 228-230).
Contains(self, other) == BitAndU8(self, other) = other

\* IntoIterator for DirectionFlags (lines 292-294): the six directions in
\* standard order, those kept whose flag the set contains.
IsIn(x, y) == Contains(y, Shl(1, x))
IntoIter(self) ==
    LET Kept(x) == IsIn(x, self)
    IN  SelectSeq(<<LEFT, RIGHT, DOWN, UP, BACK, FRONT>>, Kept)

\* From<DirectionFlags> for IVec3 (lines 297-301): the sum of the offsets
\* of the directions, from IVec3::ZERO.
RECURSIVE FoldOffsets(_, _)
FoldOffsets(acc, ds) ==
    IF ds = <<>> THEN acc
    ELSE FoldOffsets([i \in 1..3 |-> acc[i] + Offset(Head(ds))[i]], Tail(ds))

IVec3FromFlags(x) == FoldOffsets(<<0, 0, 0>>, IntoIter(x))

\* The map with the rows of DOWN and UP exchanged.
DIRECTION_OCTANT_MAP_UPSIDE_DOWN ==
    <<<<0, 2, 4, 6>>,
      <<1, 3, 5, 7>>,
      <<2, 3, 6, 7>>,
      <<0, 1, 4, 5>>,
      <<0, 1, 2, 3>>,
      <<4, 5, 6, 7>>>>

\* DIRECTION_OCTANT_MAP (lines 601-608): one row of four octants for each
\* direction, in standard order.
DIRECTION_OCTANT_MAP ==
    <<<<0, 2, 4, 6>>,
      <<1, 3, 5, 7>>,
      <<0, 1, 4, 5>>,
      <<2, 3, 6, 7>>,
      <<0, 1, 2, 3>>,
      <<4, 5, 6, 7>>>>

\* DirectionMap::get (lines 522-526): the item at index `direction as
\* usize` of the array (the rows above are numbered from 1).
DirectionMapGet(map, direction) == map[direction + 1]

\* BitOr, BitAnd and Not for DirectionFlags (lines 251-285).
FlagsBitOr(a, b) == BitOrU8(a, b)
FlagsBitAnd(a, b) == BitAndU8(a, b)

\* Not without from_bits_truncate.
FlagsNotRaw(a) == BitNotU8(a)

FlagsNot(a) == FromBitsTruncate(BitNotU8(a))

\* The u8 arguments tried for from_bits_truncate and for the two masks:
\* the three-bit masks, single high bits, and all bits.
U8Samples == 0..7 \cup {8, 16, 32, 64, 128, 192, 255}

\* The DirectionFlags values a caller can hold: from_bits_truncate is a
\* safe constructor taking any u8.
FlagsValues == {FromBitsTruncate(bits) : bits \in 0..255}

DoReverse ==
    /\ dir' = Reverse(dir)
    /\ mathOp' = "reverse"
    /\ UNCHANGED <<flags, oct, axis, exceptMath>>

DoFlagsConst ==
    /\ flags' \in FlagsConstants
    /\ mathOp' = "const"
    /\ UNCHANGED <<dir, oct, axis, exceptMath>>

DoFlagsFrom ==
    /\ \E d \in Directions : flags' = FlagsFromDirection(d)
    /\ mathOp' = "from"
    /\ UNCHANGED <<dir, oct, axis, exceptMath>>

DoFlagsFromOctant ==
    /\ \E a \in Octants : flags' = FromOctant(a)
    /\ mathOp' = "from_octant"
    /\ UNCHANGED <<dir, oct, axis, exceptMath>>

DoFlagsTruncate ==
    /\ \E bits \in U8Samples : flags' = FromBitsTruncate(bits)
    /\ mathOp' = "from_bits_truncate"
    /\ UNCHANGED <<dir, oct, axis, exceptMath>>

DoFlagsMasks ==
    /\ \E negatives \in U8Samples : \E positives \in U8Samples :
          flags' = FromNegativePositiveMasks(negatives, positives)
    /\ mathOp' = "from_negative_positive_masks"
    /\ UNCHANGED <<dir, oct, axis, exceptMath>>

\* flags |= rhs and flags &= rhs (lines 259-263, 273-277).
DoFlagsOr ==
    /\ \E rhs \in FlagsValues : flags' = FlagsBitOr(flags, rhs)
    /\ mathOp' = "bitor"
    /\ UNCHANGED <<dir, oct, axis, exceptMath>>

DoFlagsAnd ==
    /\ \E rhs \in FlagsValues : flags' = FlagsBitAnd(flags, rhs)
    /\ mathOp' = "bitand"
    /\ UNCHANGED <<dir, oct, axis, exceptMath>>

DoFlagsNot ==
    /\ flags' = FlagsNot(flags)
    /\ mathOp' = "not"
    /\ UNCHANGED <<dir, oct, axis, exceptMath>>

DoFlip ==
    /\ \E a \in Axes : oct' = Flip(oct, a)
    /\ mathOp' = "flip"
    /\ UNCHANGED <<dir, flags, axis, exceptMath>>

DoAxisFrom ==
    /\ axis' = AxisFromDirection(dir)
    /\ mathOp' = "from_direction"
    /\ UNCHANGED <<dir, flags, oct, exceptMath>>

DoAsDirection ==
    /\ dir' \in {AsDirectionNegative(axis), AsDirectionPositive(axis)}
    /\ mathOp' = "as_direction"
    /\ UNCHANGED <<flags, oct, axis, exceptMath>>

\* DirectionFlags::from_octant(oct).
DoFromOctant ==
    /\ flags' = FromOctant(oct)
    /\ mathOp' = "toward_octant"
    /\ UNCHANGED <<dir, oct, axis, exceptMath>>

\* One of the four octants DIRECTION_OCTANT_MAP[dir] lists.
DoDirectionOctant ==
    /\ \E k \in 1..4 :
          oct' = DirectionMapGet(DIRECTION_OCTANT_MAP, dir)[k]
    /\ mathOp' = "direction_octant_map"
    /\ UNCHANGED <<dir, flags, axis, exceptMath>>

\* Every value of a u8.
U8 == 0..255

\* From<u8> without the assertion.
OctantFromUnchecked(bits) == [status |-> "returned", value |-> OctantFromRaw(bits)]

\* From<u8> for Octant (lines 65-71): assert!(bits < 8), then from_raw.
OctantFrom(bits) ==
    IF bits < 8
    THEN [status |-> "returned", value |-> OctantFromRaw(bits)]
    ELSE [status |-> "panicked", value |-> 0]

\* Octant::from_raw_truncate (lines 40-44): from_raw(bits & 0b111).
FromRawTruncate(bits) == OctantFromRaw(BitAndU8(bits, 7))

\* Octant::from(bits) on the first byte.
DoOctantFrom ==
    /\ conv' = [conv EXCEPT !.fn = "from",
                            !.status = OctantFrom(conv.args[1]).status,
                            !.value = OctantFrom(conv.args[1]).value]
    /\ UNCHANGED exceptConv

\* Octant::from_raw_truncate(bits) on the first byte.
DoFromRawTruncate ==
    /\ conv' = [conv EXCEPT !.fn = "from_raw_truncate",
                            !.status = "returned",
                            !.value = FromRawTruncate(conv.args[1])]
    /\ UNCHANGED exceptConv

\* DirectionFlags::from_negative_positive_masks(negatives, positives) on
\* the two bytes.
DoFromMasks ==
    /\ conv' = [conv EXCEPT
                   !.fn = "from_negative_positive_masks",
                   !.status = "returned",
                   !.value = FromNegativePositiveMasks(conv.args[1],
                                                       conv.args[2])]
    /\ UNCHANGED exceptConv

\* Any two bytes as the arguments.
InitConv ==
    /\ WasiInit
    /\ MathIdle
    /\ RestIdle
    /\ conv \in {[ConvIdle EXCEPT !.args = <<a, b>>] : a \in U8, b \in U8}

NextConv ==
    \/ DoOctantFrom
    \/ DoFromRawTruncate
    \/ DoFromMasks

SpecConv == InitConv /\ [][NextConv]_vars

\* Any direction and any octant; the flags start as
\* DirectionFlags::default().
MathInit ==
    /\ dir \in Directions
    /\ oct \in Octants
    /\ axis \in Axes
    /\ flags = 0
    /\ mathOp = "none"

InitMath == WasiInit /\ MathInit /\ LibIdle

NextMath ==
    \/ DoReverse
    \/ DoFlip
    \/ DoAxisFrom
    \/ DoAsDirection
    \/ DoFromOctant
    \/ DoDirectionOctant

SpecMath == InitMath /\ [][NextMath]_vars

\* The flag sets built from DirectionFlags::default().
NextFlags ==
    \/ DoFlagsConst
    \/ DoFlagsFrom
    \/ DoFlagsFromOctant
    \/ DoFlagsTruncate
    \/ DoFlagsMasks
    \/ DoFlagsOr
    \/ DoFlagsAnd
    \/ DoFlagsNot

SpecFlags == Init /\ [][NextFlags]_vars

----------------------------------------------------------------------------
(* WorldCoord and WorldVec (voxel_engine_types/src/math/mod.rs): an i32 of  *)
(* world units, 256 to the voxel, and three of them.  An i32 is an integer  *)
(* of MinI32..MaxI32; an IVec3 or a WorldVec is a triple of them (cast      *)
(* reinterprets the same three i32).                                        *)

MaxI32 == 2147483647
MinI32 == (-MaxI32) - 1

\* WorldCoord::LOG2_UNITS_PER_VOXEL (line 158) and UNITS_PER_VOXEL (155).
LOG2_UNITS_PER_VOXEL == 8
UNITS_PER_VOXEL == 2^LOG2_UNITS_PER_VOXEL

\* v << n on an i32: the low 32 - n bits of v move up, the high n bits are
\* lost, and bit 31 of the result is its sign.
ShlI32(v, n) ==
    LET m == 2^(32 - n)
        u == v % m
    IN  IF u >= m \div 2 THEN (u - m) * 2^n ELSE u * 2^n

\* v >> n on an i32: the arithmetic shift, rounding toward minus infinity.
ShrI32(v, n) == v \div (2^n)

\* v & mask on an i32, for a mask of low bits (mask + 1 a power of two).
AndLowI32(v, mask) == v % (mask + 1)

\* a - b on i32 overflows when the difference leaves MinI32..MaxI32: a
\* build with overflow checks panics there, one without wraps around.
SubOverflows(a, b) ==
    \/ b > 0 /\ a < MinI32 + b
    \/ b < 0 /\ a > MaxI32 + b

WrappingSub(a, b) ==
    IF b > 0 /\ a < MinI32 + b THEN (a - MinI32) + ((MaxI32 - b) + 1)
    ELSE IF b < 0 /\ a > MaxI32 + b THEN ((a - MaxI32) - 1) + (MinI32 - b)
    ELSE a - b

\* An f32 this code can produce is a multiple of 1/256: the record
\* [whole, frac] stands for whole + frac / 256, with frac in 0..255.
\* F32Quantum(n) is the gap between neighbouring f32 values around
\* n / 256, in units of 1/256 (an f32 has 24 significant bits).
F32Quantum(n) ==
    IF -(2^24) <= n /\ n <= 2^24 THEN 1
    ELSE IF -(2^25) <= n /\ n <= 2^25 THEN 2
    ELSE IF -(2^26) <= n /\ n <= 2^26 THEN 4
    ELSE IF -(2^27) <= n /\ n <= 2^27 THEN 8
    ELSE IF -(2^28) <= n /\ n <= 2^28 THEN 16
    ELSE IF -(2^29) <= n /\ n <= 2^29 THEN 32
    ELSE IF -(2^30) <= n /\ n <= 2^30 THEN 64
    ELSE 128

\* The f32 nearest to n / 256, ties to the even significand.
F32Nearest(n) ==
    LET q == F32Quantum(n)
        k == n \div q
        r == n % q
        kk == IF 2 * r < q THEN k
              ELSE IF 2 * r > q THEN k + 1
              ELSE IF k % 2 = 0 THEN k ELSE k + 1
        per == UNITS_PER_VOXEL \div q
    IN  [whole |-> kk \div per, frac |-> (kk % per) * q]

\* vox as f32 + (frac as f32 / 256.0) (lines 170-173): both operands are
\* exact (|vox| <= 2^23, frac in 0..255); the sum is rounded to an f32.
F32Sum(vox, frac) == F32Nearest(vox * UNITS_PER_VOXEL + frac)

\* DisplacementOf dividing toward zero instead of shifting.
DisplacementOfTruncating(disp) ==
    LET floor == ShrI32(disp, LOG2_UNITS_PER_VOXEL)
        frac == AndLowI32(disp, UNITS_PER_VOXEL - 1)
        vox == IF disp < 0 /\ frac /= 0 THEN floor + 1 ELSE floor
    IN  F32Sum(vox, frac)

\* Lines 170-173 (and 72-75 per component) from the i32 delta disp.
DisplacementOf(disp) ==
    LET vox == ShrI32(disp, LOG2_UNITS_PER_VOXEL)
        frac == AndLowI32(disp, UNITS_PER_VOXEL - 1)
    IN  F32Sum(vox, frac)

\* from_voxel treating the voxel number as world units.
FromVoxelNoShift(voxel) == voxel

\* WorldCoord::from_voxel (lines 183-185), voxel (194-196), from_bits
\* (177-179).
FromVoxel(voxel) == ShlI32(voxel, LOG2_UNITS_PER_VOXEL)
Voxel(bits) == ShrI32(bits, LOG2_UNITS_PER_VOXEL)
FromBits(v) == v

\* WorldVec::from_voxel (lines 85-87), voxel (96-98), from_bits (79-81):
\* the shifts of glam's IVec3 act on each component.
VecFromVoxel(voxel) == [i \in 1..3 |-> FromVoxel(voxel[i])]
VecVoxel(bits) == [i \in 1..3 |-> Voxel(bits[i])]
VecFromBits(v) == [i \in 1..3 |-> FromBits(v[i])]

\* How a world-coordinate call ends.
CoordReturned(fn, of, v) ==
    [fn |-> fn, of |-> of, status |-> "returned", value |-> v]
CoordPanicked(fn) ==
    [fn |-> fn, of |-> "none", status |-> "panicked", value |-> <<>>]

\* WorldCoord::displacement (lines 167-174): the ways self.displacement(
\* other) can end.
CoordDisplacement(self, other) ==
    IF SubOverflows(self, other)
    THEN {CoordPanicked("coord_displacement"),
          CoordReturned("coord_displacement", "none",
                        DisplacementOf(WrappingSub(self, other)))}
    ELSE {CoordReturned("coord_displacement", "none",
                        DisplacementOf(self - other))}

\* WorldVec::displacement (lines 69-76).
VecDisplacement(self, other) ==
    IF \E i \in 1..3 : SubOverflows(self[i], other[i])
    THEN {CoordPanicked("displacement"),
          CoordReturned("displacement", "none",
              [i \in 1..3 |-> DisplacementOf(WrappingSub(self[i], other[i]))])}
    ELSE {CoordReturned("displacement", "none",
              [i \in 1..3 |-> DisplacementOf(self[i] - other[i])])}

\* The i32 values tried as x components: the smallest i32, a negative
\* number off the voxel grid, zero, one, the last voxel number whose shift
\* fits and the first whose shift overflows, the first delta an f32 cannot
\* hold, and the largest i32.  The y and z components take two of them each.
I32Samples == {MinI32, -257, 0, 1, 2^23 - 1, 2^23, 2^24 + 1, MaxI32}
IVec3Samples ==
    {<<x, y, z>> : x \in I32Samples, y \in {-257, 2^23}, z \in {0, MaxI32}}

DoVecFromBits ==
    /\ coordOut' = CoordReturned("from_bits", "none", VecFromBits(ia))
    /\ UNCHANGED <<ia, ib, exceptCoord>>

DoVecFromVoxel ==
    /\ coordOut' = CoordReturned("from_voxel", "none", VecFromVoxel(ia))
    /\ UNCHANGED <<ia, ib, exceptCoord>>

\* voxel() of the WorldVec the last call made.
DoVecVoxel ==
    /\ coordOut.fn \in {"from_bits", "from_voxel"}
    /\ coordOut' = CoordReturned("voxel", coordOut.fn, VecVoxel(coordOut.value))
    /\ UNCHANGED <<ia, ib, exceptCoord>>

\* from_bits(ia).displacement(from_bits(ib)).
DoVecDisplacement ==
    /\ coordOut' \in VecDisplacement(VecFromBits(ia), VecFromBits(ib))
    /\ UNCHANGED <<ia, ib, exceptCoord>>

\* The WorldCoord functions, on the x components.
DoCoordFromBits ==
    /\ coordOut' = CoordReturned("coord_from_bits", "none", FromBits(ia[1]))
    /\ UNCHANGED <<ia, ib, exceptCoord>>

DoCoordFromVoxel ==
    /\ coordOut' = CoordReturned("coord_from_voxel", "none", FromVoxel(ia[1]))
    /\ UNCHANGED <<ia, ib, exceptCoord>>

DoCoordVoxel ==
    /\ coordOut.fn \in {"coord_from_bits", "coord_from_voxel"}
    /\ coordOut' = CoordReturned("coord_voxel", coordOut.fn, Voxel(coordOut.value))
    /\ UNCHANGED <<ia, ib, exceptCoord>>

DoCoordDisplacement ==
    /\ coordOut' \in CoordDisplacement(FromBits(ia[1]), FromBits(ib[1]))
    /\ UNCHANGED <<ia, ib, exceptCoord>>

\* Any two integer vectors as arguments.
CoordInit ==
    /\ ia \in IVec3Samples
    /\ ib \in IVec3Samples
    /\ coordOut = [fn |-> "none", of |-> "none", status |-> "none",
                   value |-> <<>>]

InitCoord ==
    /\ WasiInit /\ MathIdle /\ CoordInit /\ AssetIdle /\ UiIdle /\ InputIdle
    /\ CallsIdle

NextCoord ==
    \/ DoVecFromBits
    \/ DoVecFromVoxel
    \/ DoVecVoxel
    \/ DoVecDisplacement
    \/ DoCoordFromBits
    \/ DoCoordFromVoxel
    \/ DoCoordVoxel
    \/ DoCoordDisplacement

SpecCoord == InitCoord /\ [][NextCoord]_vars

----------------------------------------------------------------------------
(* Input actions (voxel_engine_types/src/input.rs).  The plugin side is the *)
(* dispatch of `dyn Input::define` and `get` on the kind of input; the host *)
(* side of the Input trait is not part of these sources, and is modelled   *)
(* from the documentation of the trait's methods.                           *)

Analog == "Analog"
Digital == "Digital"
InputKinds == {Analog, Digital}

\* ActionDescriptor (lines 139-148) with its ActionName (lines 166-172);
\* the description shown to the user is left out.
ActionNames == {"jump", "fire"}
Systems == {"SysA", "SysB"}
BindingLists == {<<"Space">>, <<"Enter", "Space">>}
Descriptors ==
    [name : ActionNames, system : Systems, default_bindings : BindingLists]

\* The positions of the action of this kind, name and system.
FindAction(acts, kind, descriptor) ==
    {i \in 1..Len(acts) : /\ acts[i].kind = kind
                          /\ acts[i].name = descriptor.name
                          /\ acts[i].system = descriptor.system}

\* The host creating an action at every call.
HostDefineAlwaysCreates(acts, kind, descriptor) ==
    [actions |-> Append(acts, [kind |-> kind,
                               name |-> descriptor.name,
                               system |-> descriptor.system,
                               bindings |-> descriptor.default_bindings]),
     id |-> Len(acts)]

\* The host's define_analog / define_digital (lines 37-46): "Gets a handle
\* referencing the given action.  The action is created if it does not
\* exist", and then bound to its default bindings (lines 143-145).
HostDefine(acts, kind, descriptor) ==
    IF FindAction(acts, kind, descriptor) /= {}
    THEN [actions |-> acts,
          id |-> (CHOOSE i \in FindAction(acts, kind, descriptor) : TRUE) - 1]
    ELSE [actions |-> Append(acts, [kind |-> kind,
                                    name |-> descriptor.name,
                                    system |-> descriptor.system,
                                    bindings |-> descriptor.default_bindings]),
          id |-> Len(acts)]

define_analog(descriptor) == HostDefine(actions, Analog, descriptor)
define_digital(descriptor) == HostDefine(actions, Digital, descriptor)

\* dyn Input::define (lines 59-61) through InputKind::define (lines 99-101,
\* 113-115).
Define(kind, descriptor) ==
    IF kind = Analog THEN define_analog(descriptor)
    ELSE define_digital(descriptor)

DoDefine ==
    /\ Len(defineLog) < MaxDefines
    /\ \E kind \in InputKinds : \E descriptor \in Descriptors :
          LET r == Define(kind, descriptor) IN
          /\ actions' = r.actions
          /\ defineLog' = Append(defineLog, [kind |-> kind,
                                             descriptor |-> descriptor,
                                             id |-> r.id])
    /\ UNCHANGED <<held, heldLast, ticks, digitalOut, exceptInput>>

NextDefine == DoDefine

SpecDefine == Init /\ [][NextDefine]_vars

\* A tick passes: the host samples the action's bindings.
HostTick(input) ==
    /\ heldLast' = held
    /\ held' = input
    /\ ticks' = Append(ticks, input)

\* The host answering with the two flags exchanged.
HostGetDigitalSwapped ==
    [held |-> held, released |-> held /\ ~heldLast, pressed |-> heldLast /\ ~held]

\* The host's get_digital (lines 52-54), by the documentation of
\* DigitalResult (lines 189-194).
HostGetDigital ==
    [held |-> held, released |-> heldLast /\ ~held, pressed |-> held /\ ~heldLast]

\* dyn Input::get (lines 64-66) through InputKind::get for Digital (lines
\* 117-119).
get_digital ==
    /\ digitalOut' = HostGetDigital
    /\ UNCHANGED <<actions, defineLog, held, heldLast, ticks>>

DoTick ==
    /\ Len(ticks) < MaxTicks
    /\ \E input \in BOOLEAN : HostTick(input)
    /\ UNCHANGED <<actions, defineLog, digitalOut, exceptInput>>

DoGetDigital == get_digital /\ UNCHANGED exceptInput

NextDigital == DoTick \/ DoGetDigital

SpecDigital == Init /\ [][NextDigital]_vars

----------------------------------------------------------------------------
(* The asset encoder (voxel_engine_macros/src/lib.rs) and the accessors of  *)
(* dyn AssetManager (voxel_engine_types/src/asset.rs).  An Option is a      *)
(* sequence of at most one element; a Result is a record tagged Ok or Err.  *)

Ok(v) == [tag |-> "Ok", value |-> v]
Err(e) == [tag |-> "Err", error |-> e]
None == <<>>
Some(v) == <<v>>

\* File extensions as the encoder receives them, and file contents: the
\* ASCII text "hi", and a lone byte 0xFF (no UTF-8 string holds it).
Extensions == {"jpg", "jpeg", "png", "toml", "txt", "xyz", "PNG"}
DataSamples == {<<104, 105>>, <<255>>}
Files == [extension : Extensions, data : DataSamples]

\* String::from_utf8 (lib.rs line 41) on the sample contents: bytes below
\* 0x80 are one-byte characters, 0xFF begins no character.
StringFromUtf8(data) ==
    IF \A i \in 1..Len(data) : data[i] < 128
    THEN Ok(data) ELSE Err("FromUtf8Error")

\* The encoder without the "txt" pattern.
EncodeWithoutTxt(extension, data) ==
    CASE extension \in {"jpg", "jpeg"} ->
            Ok(Some([asset |-> "Image", data |-> data, format |-> "Jpeg"]))
      [] extension = "png" ->
            Ok(Some([asset |-> "Image", data |-> data, format |-> "Png"]))
      [] extension = "toml" ->
            IF StringFromUtf8(data).tag = "Ok"
            THEN Ok(Some([asset |-> "Text", value |-> StringFromUtf8(data).value]))
            ELSE Err("from_serialize")
      [] OTHER -> Ok(None)

\* VoxelAssetEncoder::encode (lib.rs lines 26-45).
Encode(extension, data) ==
    CASE extension \in {"jpg", "jpeg"} ->
            Ok(Some([asset |-> "Image", data |-> data, format |-> "Jpeg"]))
      [] extension = "png" ->
            Ok(Some([asset |-> "Image", data |-> data, format |-> "Png"]))
      [] extension \in {"toml", "txt"} ->
            IF StringFromUtf8(data).tag = "Ok"
            THEN Ok(Some([asset |-> "Text", value |-> StringFromUtf8(data).value]))
            ELSE Err("from_serialize")
      [] OTHER -> Ok(None)

\* include_assets (lib.rs lines 13-18) hands each file of the directory to
\* the encoder.
DoEmbed ==
    /\ Len(embedded) < MaxFiles
    /\ \E file \in Files :
          embedded' = Append(embedded,
                             [file |-> file,
                              result |-> Encode(file.extension, file.data)])
    /\ UNCHANGED <<hostAssets, tomlOut, exceptAsset>>

NextEmbed == DoEmbed

SpecEmbed == Init /\ [][NextEmbed]_vars

\* Asset ids, and what try_get_raw (asset.rs line 37) may answer for one:
\* an error, an image, or a text: the TOML of a MyConfig (example_mod
\* lines 72-76), a TOML table of another shape, or no TOML at all.
AssetIds == {"MEME", "MY_CONFIG", "README"}
GoodToml == "hello = 'x' is_true = true"
Texts == {GoodToml, "hello = 1", "= ="}
RawAnswers ==
    {Err("EngineError"), Ok([asset |-> "Image"])}
        \cup {Ok([asset |-> "Text", value |-> t]) : t \in Texts}

try_get_raw(id) == hostAssets[id]

\* toml::from_str::<MyConfig> (asset.rs line 48) on the sample texts.
TomlFromStr(value) ==
    IF value = GoodToml THEN Ok([hello |-> "x", is_true |-> TRUE])
    ELSE Err("toml::de::Error")

TomlReturned(id, v) == [id |-> id, status |-> "returned", value |-> v]
TomlPanicked(id, msg) == [id |-> id, status |-> "panicked", value |-> msg]

\* get_from_toml falling back to a default value when parsing fails.
get_from_toml_or_default(id) ==
    LET raw == try_get_raw(id) IN
    IF raw.tag = "Err" THEN TomlPanicked(id, "Failed to get asset.")
    ELSE IF raw.value.asset = "Text"
    THEN IF TomlFromStr(raw.value.value).tag = "Ok"
         THEN TomlReturned(id, TomlFromStr(raw.value.value).value)
         ELSE TomlReturned(id, [hello |-> "", is_true |-> FALSE])
    ELSE TomlPanicked(id, "Expected text asset")

\* AssetManager::get_from_toml (asset.rs lines 46-51).
get_from_toml(id) ==
    LET raw == try_get_raw(id) IN
    IF raw.tag = "Err" THEN TomlPanicked(id, "Failed to get asset.")
    ELSE IF raw.value.asset = "Text"
    THEN IF TomlFromStr(raw.value.value).tag = "Ok"
         THEN TomlReturned(id, TomlFromStr(raw.value.value).value)
         ELSE TomlPanicked(id, "Failed to deserialize TOML map.")
    ELSE TomlPanicked(id, "Expected text asset")

DoGetFromToml ==
    /\ \E id \in AssetIds : tomlOut' = get_from_toml(id)
    /\ UNCHANGED <<embedded, hostAssets, exceptAsset>>

\* Any answers of the host.
InitToml ==
    /\ WasiInit /\ MathIdle /\ CoordIdle /\ UiIdle /\ InputIdle
    /\ CallsIdle
    /\ embedded = <<>>
    /\ hostAssets \in [AssetIds -> RawAnswers]
    /\ tomlOut = NoCall

NextToml == DoGetFromToml

SpecToml == InitToml /\ [][NextToml]_vars

----------------------------------------------------------------------------
(* The example client (example_mod/src/lib.rs). *)

\* What try_get_ui_texture (asset.rs line 40) may answer: an error, or the
\* index of the slot the texture was given for this frame.
TextureIndices == {0, 1, 2}
TextureAnswers == {Err("EngineError")} \cup {Ok(i) : i \in TextureIndices}

\* draw_ui keeping the first index it was given.
draw_ui_cached(answer) ==
    /\ frame' = frame + 1
    /\ IF handed /= <<>>
       THEN /\ handed' = Append(handed, [frame |-> frame + 1,
                                         index |-> handed[1].index])
            /\ UNCHANGED <<issued, client>>
       ELSE IF answer.tag = "Ok"
       THEN /\ issued' = issued \cup {[frame |-> frame + 1, index |-> answer.value]}
            /\ handed' = Append(handed, [frame |-> frame + 1,
                                         index |-> answer.value])
            /\ UNCHANGED client
       ELSE /\ client' = "panicked"
            /\ UNCHANGED <<issued, handed>>

\* HelloClient::draw_ui (lines 25-37), the handler of the Frame event:
\* get_ui_texture (asset.rs lines 54-56) unwraps the host's answer, and
\* the index goes straight into the Image shown in this frame.
draw_ui(answer) ==
    /\ frame' = frame + 1
    /\ IF answer.tag = "Ok"
       THEN /\ issued' = issued \cup {[frame |-> frame + 1, index |-> answer.value]}
            /\ handed' = Append(handed, [frame |-> frame + 1,
                                         index |-> answer.value])
            /\ UNCHANGED client
       ELSE /\ client' = "panicked"
            /\ UNCHANGED <<issued, handed>>

\* A Frame event reaches the client, unless it has panicked.
DoFrame ==
    /\ client = "running"
    /\ frame < MaxFrames
    /\ \E answer \in TextureAnswers : draw_ui(answer)
    /\ UNCHANGED exceptUi

NextUi == DoFrame

SpecUi == Init /\ [][NextUi]_vars

----------------------------------------------------------------------------
(* Properties of the world coordinates. *)

\* C12: for every integer voxel coordinate v (32-bit components),
\* WorldVec::from_voxel(v).voxel() == v, and WorldCoord::from_voxel(v)
\* .voxel() == v for a single coordinate.
C12_VoxelRoundTrip ==
    /\ (coordOut.fn = "voxel" /\ coordOut.of = "from_voxel")
          => coordOut.value = ia
    /\ (coordOut.fn = "coord_voxel" /\ coordOut.of = "coord_from_voxel")
          => coordOut.value = ia[1]

\* The voxel numbers whose shift by 8 fits an i32.
InVoxelRange(v) == -(2^23) <= v /\ v < 2^23

\* C12 as amended: the round trip gives back every coordinate that lies in
\* -2^23 .. 2^23 - 1.
C12_VoxelRoundTripInRange ==
    /\ (coordOut.fn = "voxel" /\ coordOut.of = "from_voxel")
          => \A i \in 1..3 : InVoxelRange(ia[i]) => coordOut.value[i] = ia[i]
    /\ (coordOut.fn = "coord_voxel" /\ coordOut.of = "coord_from_voxel")
          => (InVoxelRange(ia[1]) => coordOut.value = ia[1])

\* voxel() of from_voxel((2^23 - 1, -257, 0)): the same vector.
C12_Witness ==
    /\ coordOut.fn = "voxel"
    /\ coordOut.of = "from_voxel"
    /\ ia = <<2^23 - 1, -257, 0>>
    /\ coordOut.value = <<2^23 - 1, -257, 0>>

\* d / 256 as a whole-voxel part floor(d / 256) and a fraction
\* (d mod 256) / 256.
ExactVoxels(d) == [whole |-> d \div 256, frac |-> d % 256]

\* C13: a.displacement(b) is exactly d / 256 voxels, d = a.bits() -
\* b.bits(), as floor(d / 256) plus a fraction in [0, 1), for positive and
\* negative d; WorldVec::displacement is the same per component, and
\* p.displacement(p) is the zero vector.
C13_DisplacementIsExact ==
    /\ coordOut.fn = "coord_displacement" =>
          /\ coordOut.status = "returned"
          /\ ~SubOverflows(ia[1], ib[1])
          /\ coordOut.value = ExactVoxels(ia[1] - ib[1])
    /\ coordOut.fn = "displacement" =>
          /\ coordOut.status = "returned"
          /\ \A i \in 1..3 :
                /\ ~SubOverflows(ia[i], ib[i])
                /\ coordOut.value[i] = ExactVoxels(ia[i] - ib[i])
          /\ ia = ib => coordOut.value = [i \in 1..3 |-> [whole |-> 0, frac |-> 0]]

\* The deltas an f32 holds to the 1/256: those of magnitude at most 2^24.
DeltaFits(a, b) ==
    /\ ~SubOverflows(a, b)
    /\ -(2^24) <= a - b
    /\ a - b <= 2^24

\* C13 as amended: the same, for deltas d with |d| <= 2^24 (in every
\* component, for WorldVec).
C13_DisplacementIsExactForSmallDeltas ==
    /\ (coordOut.fn = "coord_displacement" /\ DeltaFits(ia[1], ib[1])) =>
          /\ coordOut.status = "returned"
          /\ coordOut.value = ExactVoxels(ia[1] - ib[1])
          /\ coordOut.value.frac \in 0..255
    /\ (coordOut.fn = "displacement"
            /\ \A i \in 1..3 : DeltaFits(ia[i], ib[i])) =>
          /\ coordOut.status = "returned"
          /\ \A i \in 1..3 :
                /\ coordOut.value[i] = ExactVoxels(ia[i] - ib[i])
                /\ coordOut.value[i].frac \in 0..255
          /\ ia = ib => coordOut.value = [i \in 1..3 |-> [whole |-> 0, frac |-> 0]]

\* (-257, -257, 0).displacement((0, -257, 0)): -2 + 255/256 voxels along x,
\* nothing along y and z.
C13_Witness ==
    /\ coordOut.fn = "displacement"
    /\ ia = <<-257, -257, 0>>
    /\ ib = <<0, -257, 0>>
    /\ coordOut.value = <<[whole |-> -2, frac |-> 255],
                          [whole |-> 0, frac |-> 0],
                          [whole |-> 0, frac |-> 0]>>

----------------------------------------------------------------------------
(* Properties of the input actions. *)

\* The action a define call names.
KeyOf(call) ==
    <<call.kind, call.descriptor.name, call.descriptor.system>>

\* The first define call naming the action of call k.
FirstDefine(k) ==
    CHOOSE j \in 1..k :
        /\ KeyOf(defineLog[j]) = KeyOf(defineLog[k])
        /\ \A i \in 1..(j - 1) : KeyOf(defineLog[i]) /= KeyOf(defineLog[k])

\* C14: in any sequence of define calls, a define of an action with the
\* same name and system returns the ActionId of the first one, defines of
\* different actions return different ids, and the action keeps the default
\* bindings of its first registration.
C14_DefineIsIdempotent ==
    \A k \in 1..Len(defineLog) :
        /\ defineLog[k].id = defineLog[FirstDefine(k)].id
        /\ \A j \in 1..Len(defineLog) :
              KeyOf(defineLog[j]) /= KeyOf(defineLog[k])
                  => defineLog[j].id /= defineLog[k].id
        /\ defineLog[k].id + 1 \in 1..Len(actions)
        /\ actions[defineLog[k].id + 1].bindings
              = defineLog[FirstDefine(k)].descriptor.default_bindings

\* "jump" defined, then "fire", then "jump" again with other default
\* bindings: ids 0, 1, 0, and "jump" keeps its first bindings.
C14_Witness ==
    /\ Len(defineLog) = 3
    /\ KeyOf(defineLog[1]) = <<Analog, "jump", "SysA">>
    /\ KeyOf(defineLog[2]) = <<Analog, "fire", "SysA">>
    /\ KeyOf(defineLog[3]) = <<Analog, "jump", "SysA">>
    /\ defineLog[1].descriptor.default_bindings = <<"Space">>
    /\ defineLog[3].descriptor.default_bindings = <<"Enter", "Space">>
    /\ defineLog[1].id = 0 /\ defineLog[2].id = 1 /\ defineLog[3].id = 0
    /\ actions[1].bindings = <<"Space">>

\* The action's state in tick n of the run, false before the first tick.
HeldInTick(n) == n >= 1 /\ ticks[n]

----------------------------------------------------------------------------
(* Properties of the assets and of the example client. *)

ImageExtensions == {"jpg", "jpeg", "png"}
TextExtensions == {"toml", "txt"}

\* The encoder gave an asset for the k-th file; the identifiers of the
\* embedded directory are the files it gave one for.
YieldsAsset(k) ==
    embedded[k].result.tag = "Ok" /\ embedded[k].result.value /= None
Identifiers == {k \in 1..Len(embedded) : YieldsAsset(k)}

IsText(data) == data = <<104, 105>>

\* The files the encoder has an asset for.
Encodable(file) ==
    \/ file.extension \in ImageExtensions
    \/ file.extension \in TextExtensions /\ IsText(file.data)

C17_GetFromTomlReturnsOrPanics ==
    tomlOut /= NoCall =>
        LET raw == hostAssets[tomlOut.id]
            good == /\ raw.tag = "Ok"
                    /\ raw.value.asset = "Text"
                    /\ raw.value.value = GoodToml
        IN  /\ tomlOut.status \in {"returned", "panicked"}
            /\ tomlOut.status = "returned" <=> good
            /\ good => tomlOut.value = [hello |-> "x", is_true |-> TRUE]

\* The configuration was read while the host knows an image, a good text
\* and a text that is no TOML.
C17_Witness ==
    /\ tomlOut.status = "returned"
    /\ tomlOut.id = "MY_CONFIG"
    /\ hostAssets["MEME"] = Ok([asset |-> "Image"])
    /\ hostAssets["README"] = Ok([asset |-> "Text", value |-> "= ="])

\* C18: every texture index handed to the UI during a frame was returned
\* by get_ui_texture during that same frame; none from an earlier frame is
\* used.
C18_TextureIndexUsedInItsFrame ==
    \A k \in 1..Len(handed) :
        /\ handed[k].frame <= frame
        /\ [frame |-> handed[k].frame, index |-> handed[k].index] \in issued

\* Two frames drawn, the texture in another slot in the second.
C18_Witness ==
    /\ frame = 2
    /\ handed = <<[frame |-> 1, index |-> 1], [frame |-> 2, index |-> 0]>>
    /\ client = "running"

----------------------------------------------------------------------------
(* Properties of the console-write shim. *)

\* The positions of the newlines of s, and the k-th of them.
NewlinesOf(s) == {i \in 1..Len(s) : s[i] = NL}
NthNewline(s, k) ==
    CHOOSE i \in NewlinesOf(s) : Cardinality({j \in NewlinesOf(s) : j <= i}) = k

\* The newline-terminated lines of s, each without its newline, and what
\* follows the last newline.
LinesOf(s) ==
    [k \in 1..Cardinality(NewlinesOf(s)) |->
        SubSeq(s, IF k = 1 THEN 1 ELSE NthNewline(s, k - 1) + 1,
               NthNewline(s, k) - 1)]
AfterLastNewline(s) ==
    IF NewlinesOf(s) = {} THEN s
    ELSE SubSeq(s, NthNewline(s, Cardinality(NewlinesOf(s))) + 1, Len(s))

MessagesOf(lg) == [k \in 1..Len(lg) |-> lg[k].message]

\* C1: from an empty buffer, after any sequence of single-ciovec fd_write
\* calls on fd 1 or 2, the messages passed to global_log are, in order,
\* exactly the newline-terminated lines of all the data written so far, each
\* without its newline, and nothing else is logged.
C1_LoggedLinesAreStreamLines == MessagesOf(log) = LinesOf(stream)

\* "a\nb" on standard output and later "a\n" on standard error: the two
\* lines "a" and "ba", the second one completed by the later call.
C1_Witness ==
    /\ stream = <<"a", NL, "b", "a", NL>>
    /\ log = <<[level |-> Info, message |-> <<"a">>],
               [level |-> Error, message |-> <<"b", "a">>]>>

\* The effect of single-ciovec calls, one per ciovec of iovs, in list order.
RECURSIVE OneByOne(_, _, _, _)
OneByOne(fd, iovs, current_string, lg) ==
    IF iovs = <<>> THEN [current_string |-> current_string, lg |-> lg]
    ELSE LET st == FdWriteEffect(fd, <<Head(iovs)>>, current_string, lg)
         IN  OneByOne(fd, Tail(iovs), st.current_string, st.lg)

\* C2: an fd_write call with a list of k ciovecs logs the messages, and
\* leaves the line buffer, that k successive single-ciovec calls with those
\* ciovecs in list order do.
C2_ListIsOneByOne ==
    [][\A fd \in {1, 2} : \A iovs \in IovLists(MaxStream, MaxIov) :
         fd_write(fd, iovs) =>
            /\ BUFFER' = OneByOne(fd, iovs, BUFFER, log).current_string
            /\ log' = OneByOne(fd, iovs, BUFFER, log).lg]_vars

RECURSIVE SumLen(_)
SumLen(iovs) == IF iovs = <<>> THEN 0 ELSE Len(Head(iovs)) + SumLen(Tail(iovs))

\* C3: fd_write on fd 1 or 2 returns 0 and stores in *nwritten the sum of
\* buf_len over the ciovecs of the call.
C3_NwrittenIsSum ==
    [][\A fd \in {1, 2} : \A iovs \in IovLists(MaxStream, MaxIov) :
         fd_write(fd, iovs) =>
            /\ result' = Returned(0)
            /\ nwritten' = SumLen(iovs)]_vars

\* C4: bytes written to fd 1 appear only in messages logged at Info, bytes
\* written to fd 2 only in messages logged at Error (in SpecTagged, "a" is
\* written to fd 1 only and "b" to fd 2 only).
C4_BytesKeepTheirLevel ==
    \A k \in 1..Len(log) : \A i \in 1..Len(log[k].message) :
        /\ log[k].message[i] = "a" => log[k].level = Info
        /\ log[k].message[i] = "b" => log[k].level = Error

\* The bytes the step appends to the stream.
Written == SubSeq(stream', Len(stream) + 1, Len(stream'))

\* C5: the line buffer starts empty; a single-ciovec fd_write with no
\* newline in its data logs nothing and appends the data to the buffer; one
\* with a newline leaves the buffer equal to the data after its last newline.
C5_BufferHoldsPartialLine ==
    /\ BUFFER = <<>>
    /\ [][(\E fd \in {1, 2} : fd_write(fd, <<Written>>)) =>
            IF NewlinesOf(Written) = {}
            THEN log' = log /\ BUFFER' = BUFFER \o Written
            ELSE BUFFER' = AfterLastNewline(Written)]_vars

\* "a" buffered by one call, "b" appended by the next, nothing logged.
C5_Witness ==
    /\ BUFFER = <<"a", "b">>
    /\ log = <<>>
    /\ nwritten = 1

\* C21: every fd_write call on fd 1 or 2 runs to completion: whatever the
\* ciovec list (empty ciovecs, consecutive or trailing newlines) and
\* whatever the line buffer holds, a call that was entered returns 0.
C21_FdWriteRunsToCompletion ==
    (writing.pc /= "idle") ~> (writing.pc = "idle" /\ result = Returned(0))

\* A call with an empty ciovec followed by two newlines has returned; "a"
\* was in the line buffer when it was entered, and was logged by it.
C21_Witness ==
    /\ writing.pc = "idle"
    /\ result = Returned(0)
    /\ writing.iovs = <<<<>>, <<NL, NL>>>>
    /\ MessagesOf(log) = <<<<"a">>, <<>>>>
    /\ BUFFER = <<>>

\* C29: fd_write called with a descriptor other than 1 or 2 aborts without
\* returning, and before touching any state: the line buffer and the log
\* are unchanged and *nwritten is not written.
C29_OtherDescriptorsAbort ==
    [][(\E fd \in Fds \ {1, 2} : \E iovs \in {<<>>, <<<<"a", NL>>>>} :
            fd_write(fd, iovs))
       => /\ result' = Trapped
          /\ BUFFER' = BUFFER
          /\ log' = log
          /\ nwritten' = nwritten]_vars

\* "a\nb" was written to a console, then a call on another descriptor was
\* aborted: the line and the partial line are as the write left them.
C29_Witness ==
    /\ result = Trapped
    /\ stream = <<"a", NL>>
    /\ MessagesOf(log) = <<<<"a">>>>
    /\ nwritten = 2

\* C30: in every state reachable by fd_write calls on fd 1 and fd 2, with
\* any data and any number of ciovecs, neither the line buffer nor any
\* message passed to global_log contains a newline.
C30_NoNewlineIsKept ==
    /\ \A i \in 1..Len(BUFFER) : BUFFER[i] /= NL
    /\ \A k \in 1..Len(log) :
          \A i \in 1..Len(log[k].message) : log[k].message[i] /= NL

\* A newline came first in the data ("\na" in one ciovec): an empty line
\* was logged and "a" is buffered.
C30_Witness ==
    /\ stream = <<NL, "a">>
    /\ MessagesOf(log) = <<<<>>>>
    /\ BUFFER = <<"a">>
    /\ result = Returned(0)

----------------------------------------------------------------------------
(* Properties of the other shim functions. *)

\* C6: every function of the impl_trap_for_funcs family, and proc_exit,
\* aborts in every state and never returns a value (the bodies read no
\* argument).
C6_UnsupportedCallsTrap ==
    /\ [](Running => (ENABLED ProcExit /\ ENABLED TrapFunc))
    /\ [][/\ (\E f \in TrapFuncs : trap_func(f)) => result'.status = "trapped"
          /\ proc_exit => result'.status = "trapped"]_vars

\* An unsupported call made after a write: the call was aborted.
C6_Witness ==
    /\ result.status = "trapped"
    /\ result.value = 0
    /\ nwritten /= Junk
    /\ BUFFER /= <<>>

\* C7: environ_sizes_get stores 0 and 0 and returns 0; environ_get returns 0
\* and writes to neither of its buffers; both do so in every state.
C7_EnvironIsEmpty ==
    /\ [](Running => (ENABLED EnvironGet /\ ENABLED EnvironSizesGet))
    /\ [][/\ environ_sizes_get =>
                /\ envSizes'.offset0 = 0
                /\ envSizes'.offset1 = 0
                /\ result' = Returned(0)
          /\ environ_get =>
                /\ result' = Returned(0)
                /\ envBufs' = envBufs
                /\ envBufs' = [environ |-> Junk, environ_buf |-> Junk]]_vars

\* Both sizes were stored, the buffers of environ_get are as they were.
C7_Witness ==
    /\ envSizes = [offset0 |-> 0, offset1 |-> 0]
    /\ envBufs = [environ |-> Junk, environ_buf |-> Junk]
    /\ result = Returned(0)

C9_StubsLeaveConsoleAlone ==
    [][/\ sched_yield => result' = Returned(0)
       /\ (\/ sched_yield
           \/ environ_get
           \/ environ_sizes_get
           \/ \E buf \in 0..RandSize : \E buf_len \in 0..(RandSize - buf) :
                 random_get(buf, buf_len))
          => BUFFER' = BUFFER /\ log' = log]_vars

\* The stubs were called while a partial line was buffered, and the line was
\* then logged whole.
C9_Witness ==
    /\ log = <<[level |-> Error, message |-> <<"a">>]>>
    /\ BUFFER = <<>>
    /\ envSizes.offset0 = 0
    /\ randBuf[0] = 0

----------------------------------------------------------------------------
(* Properties of the direction algebra. *)

\* C10: for every direction d, d.reverse() is one of the six directions and
\* d.reverse().reverse() == d.
C10_ReverseIsInvolution ==
    /\ dir \in Directions
    /\ Reverse(dir) \in Directions
    /\ Reverse(Reverse(dir)) = dir

\* FRONT, obtained by reversing BACK.
C10_Witness == mathOp = "reverse" /\ dir = FRONT /\ Reverse(dir) = BACK

\* C11: for each of the eight octants o and each axis a, o.flip(a) is one
\* of the eight octants and o.flip(a).flip(a) == o.
C11_FlipIsInvolution ==
    /\ oct \in Octants
    /\ \A a \in Axes :
          /\ Flip(oct, a) \in Octants
          /\ Flip(Flip(oct, a), a) = oct

\* Z1Y0X1, reached by a flip, whose flip along Y is Z1Y1X1.
C11_Witness == mathOp = "flip" /\ oct = 5 /\ Flip(oct, Y) = 7

\* C22: for every direction d, d.reverse() is the opposite direction: it
\* lies on the axis of d, its offset is the negated offset of d, and it is
\* positive exactly when d is not.
C22_ReverseIsOpposite ==
    /\ AxisFromDirection(Reverse(dir)) = AxisFromDirection(dir)
    /\ \A i \in 1..3 : Offset(Reverse(dir))[i] = -Offset(dir)[i]
    /\ Positive(Reverse(dir)) = ~Positive(dir)

\* UP, obtained by reversing DOWN: positive, on the y axis, offset (0, 1, 0).
C22_Witness ==
    /\ mathOp = "reverse"
    /\ dir = UP
    /\ Positive(dir)
    /\ Offset(dir) = <<0, 1, 0>>
    /\ Offset(Reverse(dir)) = <<0, -1, 0>>

\* C23: for every octant o and axis a, o.flip(a).as_uvec3() differs from
\* o.as_uvec3() in exactly the component of a, where 0 becomes 1 and 1
\* becomes 0; the other two components are equal.
C23_FlipInvertsOneComponent ==
    \A a \in Axes : \A c \in Axes :
        AsUVec3(Flip(oct, a))[c + 1] =
            IF c = a THEN 1 - AsUVec3(oct)[c + 1] ELSE AsUVec3(oct)[c + 1]

\* Z1Y1X0 at (0, 1, 1), reached by a flip; its flip along X is at (1, 1, 1).
C23_Witness ==
    /\ mathOp = "flip"
    /\ oct = 6
    /\ AsUVec3(oct) = <<0, 1, 1>>
    /\ AsUVec3(Flip(oct, X)) = <<1, 1, 1>>

\* C26: for every direction d, DIRECTION_OCTANT_MAP[d] lists four distinct
\* octants, and they are exactly the octants on that side of the octree:
\* those whose as_uvec3() component on the axis of d is 1 when d is positive
\* and 0 otherwise.
C26_OctantMapListsTheSide ==
    LET row == DirectionMapGet(DIRECTION_OCTANT_MAP, dir)
        side == IF Positive(dir) THEN 1 ELSE 0
    IN  /\ Len(row) = 4
        /\ \A i \in 1..4 : \A j \in 1..4 : row[i] = row[j] => i = j
        /\ {row[i] : i \in 1..4} =
              {o \in Octants : AsUVec3(o)[AxisFromDirection(dir) + 1] = side}

\* Z1Y1X0, taken from the row of UP: its y component is 1.
C26_Witness ==
    /\ mathOp = "direction_octant_map"
    /\ dir = UP
    /\ oct = 6
    /\ AsUVec3(oct)[Y + 1] = 1

\* C27: for every octant o, DirectionFlags::from_octant(o) points toward o:
\* it contains exactly three directions, one on each axis, the positive one
\* where o.as_uvec3() is 1 and the negative one where it is 0.
C27_FromOctantPointsToward ==
    LET ds == IntoIter(FromOctant(oct)) IN
    /\ Len(ds) = 3
    /\ \A a \in Axes :
          /\ Cardinality({i \in 1..Len(ds) : AxisFromDirection(ds[i]) = a}) = 1
          /\ \E i \in 1..Len(ds) :
                ds[i] = IF AsUVec3(oct)[a + 1] = 1
                        THEN AsDirectionPositive(a)
                        ELSE AsDirectionNegative(a)
          /\ IVec3FromFlags(FromOctant(oct))[a + 1] = 2 * AsUVec3(oct)[a + 1] - 1

\* The flags of Z1Y0X1: RIGHT, DOWN and FRONT, toward (1, -1, 1).
C27_Witness ==
    /\ mathOp = "toward_octant"
    /\ oct = 5
    /\ IntoIter(flags) = <<RIGHT, DOWN, FRONT>>
    /\ IVec3FromFlags(flags) = <<1, -1, 1>>

\* The flags f0, f1, f2 chosen by bits 0, 1, 2 of a mask.
BitOf(mask, i) == BitAndU8(Shr(mask, i), 1)
MaskFlags(mask, f0, f1, f2) ==
    BitOrU8(IF BitOf(mask, 0) = 1 THEN f0 ELSE FlagsNONE,
    BitOrU8(IF BitOf(mask, 1) = 1 THEN f1 ELSE FlagsNONE,
            IF BitOf(mask, 2) = 1 THEN f2 ELSE FlagsNONE))

\* C24: from_negative_positive_masks maps bits 0, 1, 2 of the first mask to
\* the LEFT, DOWN and BACK flags and bits 0, 1, 2 of the second mask to the
\* UP, RIGHT and FRONT flags, in that order, for all masks in 0..7.
C24_MasksFollowTheDocumentedOrder ==
    (/\ conv.fn = "from_negative_positive_masks"
     /\ conv.args[1] \in 0..7
     /\ conv.args[2] \in 0..7)
    => conv.value =
          BitOrU8(MaskFlags(conv.args[1], FlagsLEFT, FlagsDOWN, FlagsBACK),
                  MaskFlags(conv.args[2], FlagsUP, FlagsRIGHT, FlagsFRONT))

\* C25: from_negative_positive_masks uses only the lowest three bits of
\* each mask: for all 8-bit negatives and positives the result equals that
\* for negatives & 7 and positives & 7.
C25_MasksUseLowThreeBits ==
    conv.fn = "from_negative_positive_masks"
    => conv.value =
          FromNegativePositiveMasks(BitAndU8(conv.args[1], 7),
                                    BitAndU8(conv.args[2], 7))

\* C28: Octant::from(bits) aborts for every bits >= 8 and returns the
\* octant of raw value bits for bits < 8; Octant::from_raw_truncate(bits)
\* returns the octant of raw value bits & 7 for every 8-bit value; neither
\* returns a value outside the eight octants.
C28_OctantConversionsStayInRange ==
    /\ conv.fn = "from" =>
          IF conv.args[1] >= 8
          THEN conv.status = "panicked"
          ELSE /\ conv.status = "returned"
               /\ conv.value = conv.args[1]
               /\ conv.value \in Octants
    /\ conv.fn = "from_raw_truncate" =>
          /\ conv.status = "returned"
          /\ conv.value = conv.args[1] % 8
          /\ conv.value \in Octants

\* from_raw_truncate(0xFD) is Z1Y0X1: the upper five bits are ignored.
C28_Witness ==
    /\ conv.fn = "from_raw_truncate"
    /\ conv.args[1] = 253
    /\ conv.value = 5

\* C19: whatever constructors and operators built it, a DirectionFlags
\* value has no bit outside the six direction bits: bits() & 0xC0 == 0.
C19_FlagsStayInRange == BitAndU8(flags, 192) = 0

\* !NONE: all six direction bits, and only those.
C19_Witness == mathOp = "not" /\ flags = 63

\* C20: Axis::from_direction is the raw value shifted right by one: LEFT and
\* RIGHT give X, DOWN and UP give Y, BACK and FRONT give Z; the result is
\* one of the three axes; and from_direction undoes as_direction_negative
\* and as_direction_positive on every axis.
C20_AxisFromDirection ==
    /\ AxisFromDirection(dir) \in Axes
    /\ AxisFromDirection(dir) = dir \div 2
    /\ dir \in {LEFT, RIGHT} => AxisFromDirection(dir) = X
    /\ dir \in {DOWN, UP} => AxisFromDirection(dir) = Y
    /\ dir \in {BACK, FRONT} => AxisFromDirection(dir) = Z
    /\ axis \in Axes
    /\ AsDirectionNegative(axis) \in Directions
    /\ AsDirectionPositive(axis) \in Directions
    /\ AxisFromDirection(AsDirectionNegative(axis)) = axis
    /\ AxisFromDirection(AsDirectionPositive(axis)) = axis

\* The axis of FRONT, taken by from_direction: Z.
C20_Witness == mathOp = "from_direction" /\ dir = FRONT /\ axis = Z

====
